---- MODULE Spec2Model ----
(***************************************************************************)
(* Two InfiniBand transport connections, A (dialling side) and B (accepted *)
(* side), of tensorpipe/transport/ibv/connection.cc, together with the     *)
(* reactor / NIC and the TCP control socket that drive them.               *)
(*                                                                         *)
(* Every handler of Connection::Impl runs to completion on the loop        *)
(* thread, so each handler is one atomic action.  A handler is written as  *)
(* an operator from the connection's record to the connection's record;    *)
(* the actions at the end of the module apply the operators to conn[c].    *)
(***************************************************************************)
EXTENDS Integers, Sequences, FiniteSets, TLC

VARIABLES conn

vars == <<conn>>

----------------------------------------------------------------------------
(* Bounds of the model.                                                    *)

\* log2 of the ring capacity used by the model (the program uses 2 MiB).
LogBufferSize == 1

\* Spec, the whole life of the two connections: calls per connection of
\* read(), write() and close(), and bytes per connection and per call.
MaxReads == 1
MaxWrites == 1
MaxCloses == 1
MaxBytes == 1
MaxReadLen == 0

\* SpecData, two established connections that can fail: the same.
DataReads == 2
DataWrites == 2
DataCloses == 1
DataBytes == 3
DataReadLen == 0

\* SpecClose, two established connections and every source of errors: the
\* same.
CloseReads == 1
CloseWrites == 1
CloseCloses == 2
CloseBytes == 1
CloseReadLen == 0

\* SpecLive, SpecData under fair scheduling: the same.
LiveReads == 1
LiveWrites == 1
LiveCloses == 1
LiveBytes == 1
LiveReadLen == 0

\* SpecFlow, two established connections that do not fail, under fair
\* delivery: the same.
FlowReads == 3
FlowWrites == 2
FlowBytes == 3
FlowReadLen == 1

\* SpecStream, two established connections that do not fail: the same.
StreamReads == 3
StreamWrites == 2
StreamBytes == 5
StreamReadLen == 2

----------------------------------------------------------------------------
(* Program constants.                                                      *)

kBufferSize == 2 ^ LogBufferSize
kWriteRequestId == 1
kAckRequestId == 2

INITIALIZING == 1
SEND_ADDR == 2
RECV_ADDR == 3
ESTABLISHED == 4

kSuccess == "Success"
Errors == {"ConnectionClosed", "EOF", "ShortRead", "ShortWrite", "System", "Ibv"}

Conn == {"A", "B"}
Peer(c) == IF c = "A" THEN "B" ELSE "A"

Min(a, b) == IF a < b THEN a ELSE b

\* a & b on non-negative integers.
RECURSIVE BitAnd(_, _)
BitAnd(a, b) ==
    IF a = 0 \/ b = 0 THEN 0
    ELSE (a % 2) * (b % 2) + 2 * BitAnd(a \div 2, b \div 2)

----------------------------------------------------------------------------
(* The state of one connection after construction.                         *)
(* Fields with a trailing underscore are the members of Connection::Impl.  *)
(* inbox* / outbox* are inboxHeader_/inboxBuf_ and outboxHeader_/          *)
(* outboxBuf_.  The remaining fields are the connection's surroundings     *)
(* (socket, epoll registration, reactor queues) and a record of what the   *)
(* connection did (callbacks invoked, teardown steps).                     *)

EmptyBuf == [i \in 0..(kBufferSize - 1) |-> 0]

InitConn(dial) ==
    [ state_ |-> INITIALIZING,
      error_ |-> kSuccess,
      dialling |-> dial,             \* sockaddr_.has_value()
      socket_ |-> ~dial,             \* socket_.hasValue()
      socketClosed |-> FALSE,        \* socket_.reset() closed an open socket
      registered |-> "none",         \* epoll interest of socket_.fd()
      qp_ |-> "null",                \* null, INIT, RTS, ERROR, released
      qpRegistered |-> FALSE,        \* reactor routes completions to us
      buffers |-> "none",            \* none, mapped, released (both MRs, both bufs)
      inboxHead |-> 0,
      inboxTail |-> 0,
      inboxBuf |-> EmptyBuf,
      outboxHead |-> 0,
      outboxTail |-> 0,
      outboxBuf |-> EmptyBuf,
      peerInboxHead_ |-> 0,
      numBytesInFlight_ |-> 0,
      numWritesInFlight_ |-> 0,
      numAcksInFlight_ |-> 0,
      readOperations_ |-> <<>>,
      writeOperations_ |-> <<>>,
      nextBufferBeingRead_ |-> 0,
      nextBufferBeingWritten_ |-> 0,
      nextReadCallbackToCall_ |-> 0,
      nextWriteCallbackToCall_ |-> 0,
      \* the loop
      inited |-> FALSE,              \* the deferred initFromLoop has run
      deferredCleanups |-> 0,        \* cleanup_ tasks deferred and not yet run
      \* the reactor and the NIC
      postedWrites |-> <<>>,         \* RDMA writes posted, not yet transmitted
      postedAcks |-> <<>>,           \* ACK sends posted, not yet transmitted
      sentWrites |-> 0,              \* transmitted, completion not yet dispatched
      sentAcks |-> 0,
      \* what the connection did
      readCalls |-> <<>>,            \* read callbacks, in invocation order
      writeCalls |-> <<>>,           \* write callbacks, in invocation order
      bytesSubmitted |-> 0,          \* bytes of the write() calls queued so far
      closeCalls |-> 0,              \* closeFromLoop runs
      handleErrorRuns |-> 0,         \* handleError runs
      cleanupRuns |-> 0,             \* cleanup_ runs
      cleanupCounters |-> <<>>,      \* in-flight counters seen by each cleanup_
      teardown |-> <<>>,             \* steps of handleError, in order
      nullQpUse |-> FALSE,           \* qp_ dereferenced while null
      ub |-> "continue",             \* what a null qp_ dereference does
      crashed |-> FALSE,             \* the null dereference ended the process
      threw |-> FALSE ]              \* a TP_THROW_* fired

----------------------------------------------------------------------------
(* Ring buffer and the per-request read / write operations                 *)
(* (tensorpipe/util/ringbuffer, tensorpipe/common/                         *)
(* ringbuffer_read_write_ops.h).                                           *)

\* Index of a counter in the data pool: counter & (capacity - 1).
Offset(counter) == BitAnd(counter, kBufferSize - 1)

\* The n bytes stored from counter `from` on.
ringBytes(buf, from, n) == [i \in 1..n |-> buf[Offset(from + i - 1)]]

\* The buffer after storing bytes `data` from counter `from` on.
ringStore(buf, from, data) ==
    [i \in DOMAIN buf |->
        IF \E k \in 1..Len(data) : Offset(from + k - 1) = i
        THEN data[CHOOSE k \in 1..Len(data) : Offset(from + k - 1) = i]
        ELSE buf[i]]

\* Consumer::startTx: a transaction starts at the tail.
startTx(head, tail) == [head |-> head, cursor |-> tail]

\* Consumer::accessContiguousInTx<allowPartial = false>(size): one or two
\* contiguous spans of `size` bytes at the transaction's cursor, which moves
\* past them; -1 (ENODATA) and no movement when fewer bytes are readable.
accessContiguousInTx(tx, size) ==
    LET avail == tx.head - tx.cursor
        start == Offset(tx.cursor)
    IN  IF avail < size
        THEN [numBuffers |-> -1, buffers |-> <<>>, tx |-> tx]
        ELSE IF size = 0
        THEN [numBuffers |-> 0, buffers |-> <<>>, tx |-> tx]
        ELSE IF start + size <= kBufferSize
        THEN [numBuffers |-> 1,
              buffers |-> <<[ptr |-> start, len |-> size]>>,
              tx |-> [tx EXCEPT !.cursor = @ + size]]
        ELSE [numBuffers |-> 2,
              buffers |-> <<[ptr |-> start, len |-> kBufferSize - start],
                            [ptr |-> 0, len |-> size - (kBufferSize - start)]>>,
              tx |-> [tx EXCEPT !.cursor = @ + size]]

\* RingbufferReadOperation: a sized read wants exactly len bytes, an unsized
\* read wants the next non-empty chunk.
ReadOperation(seq, sized, len) ==
    [seq |-> seq, sized |-> sized, len |-> len, buf |-> <<>>]

readCompleted(op) ==
    IF op.sized THEN Len(op.buf) = op.len ELSE Len(op.buf) > 0

\* RingbufferWriteOperation: data to copy into the outbox, and how much of it
\* has been copied.
WriteOperation(seq, data) == [seq |-> seq, data |-> data, written |-> 0]

writeCompleted(op) == op.written = Len(op.data)

----------------------------------------------------------------------------
(* The closures readFromLoop / writeFromLoop wrap around the user's        *)
(* callback: TP_DCHECK_EQ(sequenceNumber, next...CallbackToCall_++), then  *)
(* the user's callback.  The log of the calls keeps, for each call, the    *)
(* counter the check compares with (expected) and whether an operation was *)
(* in the queue at that time (queued).                                     *)

callReadCallback(s, seq, error, data, length) ==
    [s EXCEPT !.readCalls = Append(@, [seq |-> seq,
                                       expected |-> s.nextReadCallbackToCall_,
                                       error |-> error,
                                       data |-> data,
                                       length |-> length,
                                       queued |-> s.readOperations_ # <<>>]),
              !.nextReadCallbackToCall_ = @ + 1]

callWriteCallback(s, seq, error) ==
    [s EXCEPT !.writeCalls = Append(@, [seq |-> seq,
                                        expected |-> s.nextWriteCallbackToCall_,
                                        error |-> error,
                                        queued |-> s.writeOperations_ # <<>>]),
              !.nextWriteCallbackToCall_ = @ + 1]

\* RingbufferReadOperation::handleRead on the front operation: consume what
\* the inbox holds and the operation still wants, commit the tail, and call
\* the callback with success when the operation is complete.
handleRead(s) ==
    LET op == Head(s.readOperations_)
        avail == s.inboxHead - s.inboxTail
        want == IF op.sized THEN op.len - Len(op.buf) ELSE avail
        n == IF Min(avail, want) > 0 THEN Min(avail, want) ELSE 0
        op1 == [op EXCEPT !.buf = @ \o ringBytes(s.inboxBuf, s.inboxTail, n)]
        s1 == [s EXCEPT !.readOperations_ = <<op1>> \o Tail(@),
                        !.inboxTail = @ + n]
    IN  [len |-> n,
         s |-> IF readCompleted(op1)
               THEN callReadCallback(s1, op1.seq, kSuccess, op1.buf, Len(op1.buf))
               ELSE s1]

\* RingbufferWriteOperation::handleWrite on the front operation: copy as much
\* of the remaining data as the outbox has room for, commit the head, and
\* call the callback with success when all data has been copied.
handleWrite(s) ==
    LET op == Head(s.writeOperations_)
        free == kBufferSize - (s.outboxHead - s.outboxTail)
        left == Len(op.data) - op.written
        n == IF Min(free, left) > 0 THEN Min(free, left) ELSE 0
        op1 == [op EXCEPT !.written = @ + n]
        s1 == [s EXCEPT !.writeOperations_ = <<op1>> \o Tail(@),
                        !.outboxBuf = ringStore(@, s.outboxHead,
                                                SubSeq(op.data, op.written + 1,
                                                       op.written + n)),
                        !.outboxHead = @ + n]
    IN  [len |-> n,
         s |-> IF writeCompleted(op1)
               THEN callWriteCallback(s1, op1.seq, kSuccess)
               ELSE s1]

\* Ringbuffer{Read,Write}Operation::handleError: call the callback with the
\* error.
RECURSIVE failReadOperations(_, _)
failReadOperations(s, ops) ==
    IF ops = <<>> THEN s
    ELSE failReadOperations(callReadCallback(s, Head(ops).seq, s.error_, <<>>, 0),
                            Tail(ops))

RECURSIVE failWriteOperations(_, _)
failWriteOperations(s, ops) ==
    IF ops = <<>> THEN s
    ELSE failWriteOperations(callWriteCallback(s, Head(ops).seq, s.error_),
                             Tail(ops))

----------------------------------------------------------------------------
(* The reactor: postWrite / postAck queue a work request for the NIC.      *)

postWrite(s, wr) == [s EXCEPT !.postedWrites = Append(@, wr)]

postAck(s, wr) == [s EXCEPT !.postedAcks = Append(@, wr)]

----------------------------------------------------------------------------
(* Connection::Impl, error handling and teardown.                          *)

\* A tryCleanup_ that does not look at the in-flight counters.
tryCleanupUnchecked_(s) ==
    IF s.error_ # kSuccess
    THEN [s EXCEPT !.deferredCleanups = @ + 1]
    ELSE s

tryCleanup_(s) ==
    IF s.error_ # kSuccess
    THEN IF s.numWritesInFlight_ = 0 /\ s.numAcksInFlight_ = 0
         THEN [s EXCEPT !.deferredCleanups = @ + 1]
         ELSE s
    ELSE s

\* transitionIbvQueuePairToError(lib, qp_): dereferences qp_.
transitionIbvQueuePairToError(s) ==
    IF s.qp_ = "null"
    THEN [s EXCEPT !.nullQpUse = TRUE, !.crashed = (s.ub = "crash")]
    ELSE [s EXCEPT !.qp_ = "ERROR"]

\* Lines 940-945 of handleError: unregister and close the socket.
closeSocket(s) ==
    IF s.socket_
    THEN [s EXCEPT !.registered = IF s.state_ > INITIALIZING THEN "none" ELSE @,
                   !.socket_ = FALSE,
                   !.socketClosed = TRUE,
                   !.teardown = Append(@, "socket")]
    ELSE s

ReverseSeq(q) == [i \in 1..Len(q) |-> q[Len(q) + 1 - i]]

\* A handleError that walks the two queues from the back.
handleErrorReversed(s) ==
    LET s0 == [s EXCEPT !.handleErrorRuns = @ + 1]
        s1 == [failReadOperations(s0, ReverseSeq(s0.readOperations_))
                  EXCEPT !.readOperations_ = <<>>]
        s2 == [failWriteOperations(s1, ReverseSeq(s1.writeOperations_))
                  EXCEPT !.writeOperations_ = <<>>,
                         !.teardown = Append(@, "callbacks")]
        s3 == [transitionIbvQueuePairToError(s2)
                  EXCEPT !.teardown = Append(@, "qpError")]
        s4 == [tryCleanup_(s3) EXCEPT !.teardown = Append(@, "tryCleanup")]
    IN  IF s3.crashed THEN s3 ELSE closeSocket(s4)

\* A handleError that closes the socket before it calls tryCleanup_.
handleErrorSocketFirst(s) ==
    LET s0 == [s EXCEPT !.handleErrorRuns = @ + 1]
        s1 == [failReadOperations(s0, s0.readOperations_)
                  EXCEPT !.readOperations_ = <<>>]
        s2 == [failWriteOperations(s1, s1.writeOperations_)
                  EXCEPT !.writeOperations_ = <<>>,
                         !.teardown = Append(@, "callbacks")]
        s3 == [transitionIbvQueuePairToError(s2)
                  EXCEPT !.teardown = Append(@, "qpError")]
        s4 == closeSocket(s3)
    IN  IF s3.crashed THEN s3
        ELSE [tryCleanup_(s4) EXCEPT !.teardown = Append(@, "tryCleanup")]

\* A handleError that does not clear the two queues.
handleErrorNoClear(s) ==
    LET s0 == [s EXCEPT !.handleErrorRuns = @ + 1]
        s1 == failReadOperations(s0, s0.readOperations_)
        s2 == [failWriteOperations(s1, s1.writeOperations_)
                  EXCEPT !.teardown = Append(@, "callbacks")]
        s3 == [transitionIbvQueuePairToError(s2)
                  EXCEPT !.teardown = Append(@, "qpError")]
        s4 == [tryCleanup_(s3) EXCEPT !.teardown = Append(@, "tryCleanup")]
    IN  IF s3.crashed THEN s3 ELSE closeSocket(s4)

handleError(s) ==
    LET s0 == [s EXCEPT !.handleErrorRuns = @ + 1]
        s1 == [failReadOperations(s0, s0.readOperations_)
                  EXCEPT !.readOperations_ = <<>>]
        s2 == [failWriteOperations(s1, s1.writeOperations_)
                  EXCEPT !.writeOperations_ = <<>>,
                         !.teardown = Append(@, "callbacks")]
        s3 == [transitionIbvQueuePairToError(s2)
                  EXCEPT !.teardown = Append(@, "qpError")]
        s4 == [tryCleanup_(s3) EXCEPT !.teardown = Append(@, "tryCleanup")]
    IN  IF s3.crashed THEN s3 ELSE closeSocket(s4)

\* A setError_ without the check that an error is already set.
setErrorOverwrite_(s, error) ==
    IF error = kSuccess
    THEN s
    ELSE handleError([s EXCEPT !.error_ = error])

setError_(s, error) ==
    IF s.error_ # kSuccess \/ error = kSuccess
    THEN s
    ELSE handleError([s EXCEPT !.error_ = error])

cleanup_(s) ==
    LET s0 == [s EXCEPT !.deferredCleanups = @ - 1,
                        !.cleanupRuns = @ + 1,
                        !.cleanupCounters =
                            Append(@, [error |-> s.error_,
                                       writes |-> s.numWritesInFlight_,
                                       acks |-> s.numAcksInFlight_])]
    IN  IF s.qp_ = "null"
        THEN [s0 EXCEPT !.nullQpUse = TRUE, !.crashed = (s.ub = "crash")]
        ELSE [s0 EXCEPT !.qpRegistered = FALSE,
                        !.qp_ = "released",
                        !.buffers = "released"]

closeFromLoop(s) ==
    setError_([s EXCEPT !.closeCalls = @ + 1], "ConnectionClosed")

----------------------------------------------------------------------------
(* Connection::Impl, the data path.                                        *)

\* An ackChunk that counts the ACK as a write in flight.
ackChunkWrongCounter(s, len) ==
    LET wr == [wr_id |-> kAckRequestId, imm_data |-> len]
    IN  [postAck(s, wr) EXCEPT !.numWritesInFlight_ = @ + 1]

\* An ackChunk that acknowledges one byte, whatever was consumed.
ackChunkFixedValue(s, len) ==
    LET wr == [wr_id |-> kAckRequestId, imm_data |-> 1]
    IN  [postAck(s, wr) EXCEPT !.numAcksInFlight_ = @ + 1]

\* The body of `if (len > 0)` in processReadOperationsFromLoop.
ackChunk(s, len) ==
    LET wr == [wr_id |-> kAckRequestId, imm_data |-> len]
    IN  [postAck(s, wr) EXCEPT !.numAcksInFlight_ = @ + 1]

RECURSIVE readLoop(_)
readLoop(s) ==
    IF s.readOperations_ = <<>>
    THEN s
    ELSE LET r == handleRead(s)
             s1 == IF r.len > 0 THEN ackChunk(r.s, r.len) ELSE r.s
         IN  IF readCompleted(Head(s1.readOperations_))
             THEN readLoop([s1 EXCEPT !.readOperations_ = Tail(@)])
             ELSE s1

processReadOperationsFromLoop(s) ==
    IF s.state_ # ESTABLISHED THEN s ELSE readLoop(s)

\* A postBuffer that computes the remote offset after advancing
\* peerInboxHead_.
postBufferOffsetAfter(s, buffer) ==
    LET peerInboxOffset ==
            BitAnd(s.peerInboxHead_ + buffer.len, kBufferSize - 1)
        wr == [wr_id |-> kWriteRequestId,
               addr |-> buffer.ptr,
               length |-> buffer.len,
               imm_data |-> buffer.len,
               remote_addr |-> peerInboxOffset]
    IN  [postWrite(s, wr) EXCEPT !.peerInboxHead_ = @ + buffer.len,
                                 !.numWritesInFlight_ = @ + 1]

\* A postBuffer that aims at peerInboxHead_ itself, without the mask.
postBufferUnmasked(s, buffer) ==
    LET peerInboxOffset == s.peerInboxHead_
        wr == [wr_id |-> kWriteRequestId,
               addr |-> buffer.ptr,
               length |-> buffer.len,
               imm_data |-> buffer.len,
               remote_addr |-> peerInboxOffset]
    IN  [postWrite(s, wr) EXCEPT !.peerInboxHead_ = @ + buffer.len,
                                 !.numWritesInFlight_ = @ + 1]

\* A postBuffer that does not advance peerInboxHead_.
postBufferNoAdvance(s, buffer) ==
    LET peerInboxOffset == BitAnd(s.peerInboxHead_, kBufferSize - 1)
        wr == [wr_id |-> kWriteRequestId,
               addr |-> buffer.ptr,
               length |-> buffer.len,
               imm_data |-> buffer.len,
               remote_addr |-> peerInboxOffset]
    IN  [postWrite(s, wr) EXCEPT !.numWritesInFlight_ = @ + 1]

\* One iteration of the loop over the buffers of the peek.
postBuffer(s, buffer) ==
    LET peerInboxOffset == BitAnd(s.peerInboxHead_, kBufferSize - 1)
        wr == [wr_id |-> kWriteRequestId,
               addr |-> buffer.ptr,
               length |-> buffer.len,
               imm_data |-> buffer.len,
               remote_addr |-> peerInboxOffset]
    IN  [postWrite(s, wr) EXCEPT !.peerInboxHead_ = @ + buffer.len,
                                 !.numWritesInFlight_ = @ + 1]

\* A loop over the buffers of the peek that posts the first span only.
postBuffersFirstOnly(s, buffers) ==
    IF buffers = <<>> THEN s ELSE postBuffer(s, Head(buffers))

RECURSIVE postBuffers(_, _)
postBuffers(s, buffers) ==
    IF buffers = <<>> THEN s
    ELSE postBuffers(postBuffer(s, Head(buffers)), Tail(buffers))

\* A sendChunk that peeks at the tail of the outbox, without skipping the
\* bytes in flight.
sendChunkNoSkip(s, len) ==
    LET tx == startTx(s.outboxHead, s.outboxTail)
        peek == accessContiguousInTx(tx, len)
    IN  IF peek.numBuffers < 0
        THEN [s EXCEPT !.threw = TRUE]
        ELSE [postBuffers(s, peek.buffers) EXCEPT !.numBytesInFlight_ = @ + len]

\* A sendChunk that does not add the chunk to numBytesInFlight_.
sendChunkNoCount(s, len) ==
    LET tx == startTx(s.outboxHead, s.outboxTail)
        skipped == accessContiguousInTx(tx, s.numBytesInFlight_)
        peek == accessContiguousInTx(skipped.tx, len)
    IN  IF peek.numBuffers < 0
        THEN [s EXCEPT !.threw = TRUE]
        ELSE postBuffers(s, peek.buffers)

\* The body of `if (len > 0)` in processWriteOperationsFromLoop: peek at the
\* outbox past the bytes in flight, post the spans, cancel the peek.
sendChunk(s, len) ==
    LET tx == startTx(s.outboxHead, s.outboxTail)
        skipped == accessContiguousInTx(tx, s.numBytesInFlight_)
        peek == accessContiguousInTx(skipped.tx, len)
    IN  IF peek.numBuffers < 0
        THEN [s EXCEPT !.threw = TRUE]
        ELSE [postBuffers(s, peek.buffers) EXCEPT !.numBytesInFlight_ = @ + len]

RECURSIVE writeLoop(_)
writeLoop(s) ==
    IF s.writeOperations_ = <<>>
    THEN s
    ELSE LET r == handleWrite(s)
             s1 == IF r.len > 0 THEN sendChunk(r.s, r.len) ELSE r.s
         IN  IF s1.threw
             THEN s1
             ELSE IF writeCompleted(Head(s1.writeOperations_))
             THEN writeLoop([s1 EXCEPT !.writeOperations_ = Tail(@)])
             ELSE s1

\* A write loop without the pop_front of the completed operation.
writeLoopNoPop(s) ==
    IF s.writeOperations_ = <<>>
    THEN s
    ELSE LET r == handleWrite(s)
         IN  IF r.len > 0 THEN sendChunk(r.s, r.len) ELSE r.s

processWriteOperationsFromLoopNoPop(s) ==
    IF s.state_ # ESTABLISHED THEN s ELSE writeLoopNoPop(s)

processWriteOperationsFromLoop(s) ==
    IF s.state_ # ESTABLISHED THEN s ELSE writeLoop(s)

\* A readFromLoop without the check of error_.
readFromLoopUnchecked(s, sized, length) ==
    LET sequenceNumber == s.nextBufferBeingRead_
        s1 == [s EXCEPT !.nextBufferBeingRead_ = @ + 1]
    IN  processReadOperationsFromLoop(
            [s1 EXCEPT !.readOperations_ =
                Append(@, ReadOperation(sequenceNumber, sized, length))])

\* A readFromLoop that serves a zero-length sized read at once, whatever the
\* queue holds.
readFromLoopFastPath(s, sized, length) ==
    LET sequenceNumber == s.nextBufferBeingRead_
        s1 == [s EXCEPT !.nextBufferBeingRead_ = @ + 1]
    IN  IF s1.error_ # kSuccess
        THEN callReadCallback(s1, sequenceNumber, s1.error_, <<>>, length)
        ELSE IF sized /\ length = 0
        THEN callReadCallback(s1, sequenceNumber, kSuccess, <<>>, 0)
        ELSE processReadOperationsFromLoop(
                 [s1 EXCEPT !.readOperations_ =
                     Append(@, ReadOperation(sequenceNumber, sized, length))])

readFromLoop(s, sized, length) ==
    LET sequenceNumber == s.nextBufferBeingRead_
        s1 == [s EXCEPT !.nextBufferBeingRead_ = @ + 1]
    IN  IF s1.error_ # kSuccess
        THEN callReadCallback(s1, sequenceNumber, s1.error_, <<>>, length)
        ELSE processReadOperationsFromLoop(
                 [s1 EXCEPT !.readOperations_ =
                     Append(@, ReadOperation(sequenceNumber, sized, length))])

\* A writeFromLoop without the check of error_.
writeFromLoopUnchecked(s, data) ==
    LET sequenceNumber == s.nextBufferBeingWritten_
        s1 == [s EXCEPT !.nextBufferBeingWritten_ = @ + 1]
    IN  processWriteOperationsFromLoop(
            [s1 EXCEPT !.bytesSubmitted = @ + Len(data),
                       !.writeOperations_ =
                           Append(@, WriteOperation(sequenceNumber, data))])

writeFromLoop(s, data) ==
    LET sequenceNumber == s.nextBufferBeingWritten_
        s1 == [s EXCEPT !.nextBufferBeingWritten_ = @ + 1]
    IN  IF s1.error_ # kSuccess
        THEN callWriteCallback(s1, sequenceNumber, s1.error_)
        ELSE processWriteOperationsFromLoop(
                 [s1 EXCEPT !.bytesSubmitted = @ + Len(data),
                            !.writeOperations_ =
                     Append(@, WriteOperation(sequenceNumber, data))])

\* An onRemoteProducedData that counts the produced bytes twice.
onRemoteProducedDataTwice(s, length) ==
    processReadOperationsFromLoop([s EXCEPT !.inboxHead = @ + 2 * length])

onRemoteProducedData(s, length) ==
    processReadOperationsFromLoop([s EXCEPT !.inboxHead = @ + length])

\* An onRemoteConsumedData that does not run the write processing again.
onRemoteConsumedDataNoRetry(s, length) ==
    [s EXCEPT !.outboxTail = @ + length,
              !.numBytesInFlight_ = @ - length]

\* numBytesInFlight_ is a uint32_t: a negative value here is the wrapped one.
onRemoteConsumedData(s, length) ==
    processWriteOperationsFromLoop(
        [s EXCEPT !.outboxTail = @ + length,
                  !.numBytesInFlight_ = @ - length])

\* An onWriteCompleted that takes the local completion of a write for the
\* consumption of the bytes in flight.
onWriteCompletedFreesOutbox(s) ==
    tryCleanup_([s EXCEPT !.numWritesInFlight_ = @ - 1,
                          !.outboxTail = @ + s.numBytesInFlight_,
                          !.numBytesInFlight_ = 0])

onWriteCompleted(s) ==
    tryCleanup_([s EXCEPT !.numWritesInFlight_ = @ - 1])

onAckCompleted(s) ==
    tryCleanup_([s EXCEPT !.numAcksInFlight_ = @ - 1])

\* An onError that tries to clean up after every failed completion, those of
\* receive requests included.
onErrorAlwaysCleanup(s, wr_id) ==
    LET s1 == setError_(s, "Ibv")
    IN  IF s1.crashed THEN s1
        ELSE IF wr_id = kWriteRequestId THEN onWriteCompleted(s1)
        ELSE IF wr_id = kAckRequestId THEN onAckCompleted(s1)
        ELSE tryCleanup_(s1)

\* An onError that does not count the failed work request as completed.
onErrorNoDecrement(s, wr_id) == setError_(s, "Ibv")

\* An onError that takes every work request that is not an ACK for a write.
onErrorWriteUnlessAck(s, wr_id) ==
    LET s1 == setError_(s, "Ibv")
    IN  IF s1.crashed THEN s1
        ELSE IF wr_id = kAckRequestId THEN onAckCompleted(s1)
        ELSE onWriteCompleted(s1)

onError(s, wr_id) ==
    LET s1 == setError_(s, "Ibv")
    IN  IF s1.crashed THEN s1
        ELSE IF wr_id = kWriteRequestId THEN onWriteCompleted(s1)
        ELSE IF wr_id = kAckRequestId THEN onAckCompleted(s1)
        ELSE s1

----------------------------------------------------------------------------
(* Connection::Impl, initialisation and the handshake on the socket.       *)

\* fail names the socket call that fails: create, reuseAddr, connect (only
\* when dialling), block, or none.
initFromLoop(s, fail) ==
    LET s0 == [s EXCEPT !.inited = TRUE] IN
    IF s.dialling /\ fail = "create"
    THEN setError_(s0, "System")
    ELSE IF s.dialling /\ fail \in {"reuseAddr", "connect"}
    THEN setError_([s0 EXCEPT !.socket_ = TRUE], "System")
    ELSE IF fail = "block"
    THEN setError_([s0 EXCEPT !.socket_ = TRUE], "System")
    ELSE [s0 EXCEPT !.socket_ = TRUE,
                    !.buffers = "mapped",
                    !.qp_ = "INIT",
                    !.qpRegistered = TRUE,
                    !.state_ = SEND_ADDR,
                    !.registered = "OUT"]

\* A handleEventInFromLoop that enters ESTABLISHED without processing the
\* queued writes.
handleEventInFromLoopNoDrain(s, io) ==
    IF s.state_ = RECV_ADDR
    THEN IF io # "full"
         THEN setError_(s, "ShortRead")
         ELSE processReadOperationsFromLoop(
                  [s EXCEPT !.qp_ = "RTS", !.state_ = ESTABLISHED])
    ELSE IF s.state_ = ESTABLISHED
    THEN setError_(s, "EOF")
    ELSE [s EXCEPT !.threw = TRUE]

\* io is what socket_.read returned: the whole setup blob ("full") or less.
handleEventInFromLoop(s, io) ==
    IF s.state_ = RECV_ADDR
    THEN IF io # "full"
         THEN setError_(s, "ShortRead")
         ELSE processReadOperationsFromLoop(
                  processWriteOperationsFromLoop(
                      [s EXCEPT !.qp_ = "RTS", !.state_ = ESTABLISHED]))
    ELSE IF s.state_ = ESTABLISHED
    THEN setError_(s, "EOF")
    ELSE [s EXCEPT !.threw = TRUE]

\* A handleEventOutFromLoop that fails on a short write and moves on to
\* RECV_ADDR all the same.
handleEventOutFromLoopShortAdvance(s, io) ==
    IF s.state_ = SEND_ADDR
    THEN LET s1 == IF io # "full" THEN setError_(s, "ShortWrite") ELSE s
         IN  [s1 EXCEPT !.state_ = RECV_ADDR, !.registered = "IN"]
    ELSE [s EXCEPT !.threw = TRUE]

\* io is what socket_.write returned: the whole setup blob ("full") or less.
handleEventOutFromLoop(s, io) ==
    IF s.state_ = SEND_ADDR
    THEN IF io # "full"
         THEN setError_(s, "ShortWrite")
         ELSE [s EXCEPT !.state_ = RECV_ADDR, !.registered = "IN"]
    ELSE [s EXCEPT !.threw = TRUE]

\* A handleEventsFromLoop that checks for EPOLLOUT before EPOLLIN.
handleEventsFromLoopOutFirst(s, events, io) ==
    IF "ERR" \in events THEN setError_(s, "System")
    ELSE IF "OUT" \in events THEN handleEventOutFromLoop(s, io)
    ELSE IF "IN" \in events THEN handleEventInFromLoop(s, io)
    ELSE IF "HUP" \in events THEN setError_(s, "EOF")
    ELSE s

\* A handleEventsFromLoop that checks for the hangup before EPOLLIN.
handleEventsFromLoopHupFirst(s, events, io) ==
    IF "ERR" \in events THEN setError_(s, "System")
    ELSE IF "HUP" \in events THEN setError_(s, "EOF")
    ELSE IF "IN" \in events THEN handleEventInFromLoop(s, io)
    ELSE IF "OUT" \in events THEN handleEventOutFromLoop(s, io)
    ELSE s

handleEventsFromLoop(s, events, io) ==
    IF "ERR" \in events THEN setError_(s, "System")
    ELSE IF "IN" \in events THEN handleEventInFromLoop(s, io)
    ELSE IF "OUT" \in events THEN handleEventOutFromLoop(s, io)
    ELSE IF "HUP" \in events THEN setError_(s, "EOF")
    ELSE s

----------------------------------------------------------------------------
(* The actions: one per loop task, socket event or reactor event.          *)

Alive(s) == ~s.crashed /\ ~s.threw

\* Run handler result `s` for connection c.
Becomes(c, s) == conn' = [conn EXCEPT ![c] = [s EXCEPT !.ub = "continue"]]

UbOutcomes == {"crash", "continue"}

Init == conn = [c \in Conn |-> InitConn(c = "A")]

\* The task deferred by init().
InitFromLoop(c) ==
    \E fail \in {"none", "create", "reuseAddr", "connect", "block"},
       u \in UbOutcomes :
        /\ ~conn[c].inited
        /\ fail \in {"create", "reuseAddr", "connect"} => conn[c].dialling
        /\ Becomes(c, initFromLoop([conn[c] EXCEPT !.ub = u], fail))

\* A workload bounds the calls the users make: w.reads, w.writes and w.closes
\* calls of each kind, writes of at most w.bytes bytes in total, sized reads
\* of at most w.readLen bytes.  Connection A is the one that writes and
\* connection B the one that reads; w.duplex adds their reverse roles.
Workload(reads, writes, closes, bytes, readLen, duplex) ==
    [reads |-> reads, writes |-> writes, closes |-> closes, bytes |-> bytes,
     readLen |-> readLen, duplex |-> duplex]

\* The task deferred by read(ptr, length, fn) (sized) or read(fn) (unsized).
ReadFromLoop(c, w) ==
    \E sized \in BOOLEAN, length \in 0..w.readLen :
        /\ conn[c].inited /\ Alive(conn[c])
        /\ c = "B" \/ w.duplex
        /\ conn[c].nextBufferBeingRead_ < w.reads
        /\ ~sized => length = 0
        /\ Becomes(c, readFromLoop(conn[c], sized, length))

\* The task deferred by write(ptr, length, fn).  The k-th byte a connection
\* queues has value k, so that any loss, duplication or reordering shows.
WriteFromLoop(c, w) ==
    \E length \in 0..w.bytes :
        /\ conn[c].inited /\ Alive(conn[c])
        /\ c = "A" \/ w.duplex
        /\ conn[c].nextBufferBeingWritten_ < w.writes
        /\ conn[c].bytesSubmitted + length <= w.bytes
        /\ Becomes(c, writeFromLoop(conn[c],
                          [i \in 1..length |-> conn[c].bytesSubmitted + i]))

\* The task deferred by close().
CloseFromLoop(c, w) ==
        /\ conn[c].inited /\ Alive(conn[c])
        /\ conn[c].closeCalls < w.closes
        /\ Becomes(c, closeFromLoop(conn[c]))

\* The peer's end of the TCP socket is gone.
PeerGone(c) ==
    LET p == conn[Peer(c)] IN p.socketClosed \/ p.crashed \/ p.threw

\* The peer's setup blob has been written to the socket.
PeerSentBlob(c) == conn[Peer(c)].state_ >= RECV_ADDR

\* epoll reports `events` on the socket: OUT and IN only when registered for
\* them and there is something to read (the peer's blob, or end of file), HUP
\* when the peer is gone, ERR at any time.
\* A read can return the whole blob only if the peer wrote it.
HandleEventsFromLoop(c) ==
    \E events \in (SUBSET {"ERR", "IN", "OUT", "HUP"}) \ {{}},
       io \in {"full", "short"} :
        /\ Alive(conn[c]) /\ conn[c].registered # "none"
        /\ "OUT" \in events => conn[c].registered = "OUT"
        /\ "IN" \in events =>
              /\ conn[c].registered = "IN"
              /\ \/ conn[c].state_ = RECV_ADDR /\ PeerSentBlob(c)
                 \/ PeerGone(c)
        /\ "HUP" \in events => PeerGone(c)
        /\ (io = "full" /\ "IN" \in events) => PeerSentBlob(c)
        /\ Becomes(c, handleEventsFromLoop(conn[c], events, io))

\* The queue pair of c can receive and its completions are routed to c.
Receiving(s) ==
    /\ Alive(s) /\ s.qpRegistered /\ s.state_ = ESTABLISHED
    /\ s.buffers = "mapped"

\* The NIC transmits the oldest posted RDMA write of c: it copies the span of
\* c's outbox into the peer's inbox, and the peer's reactor dispatches the
\* receive completion carrying the immediate value.
RemoteProducedData(c) ==
        LET s == conn[c]
            p == conn[Peer(c)]
            wr == Head(s.postedWrites)
            data == [i \in 1..wr.length |-> s.outboxBuf[wr.addr + i - 1]]
            landed == [i \in DOMAIN p.inboxBuf |->
                          IF i >= wr.remote_addr /\ i < wr.remote_addr + wr.length
                          THEN data[i - wr.remote_addr + 1]
                          ELSE p.inboxBuf[i]]
        IN  /\ s.postedWrites # <<>>
            /\ Alive(s) /\ s.qp_ = "RTS" /\ s.buffers = "mapped"
            /\ Receiving(p)
            /\ wr.addr + wr.length <= kBufferSize
            /\ wr.remote_addr + wr.length <= kBufferSize
            /\ conn' = [conn EXCEPT
                  ![c] = [s EXCEPT !.postedWrites = Tail(@),
                                   !.sentWrites = @ + 1],
                  ![Peer(c)] = onRemoteProducedData(
                                   [p EXCEPT !.inboxBuf = landed], wr.imm_data)]

\* The NIC transmits the oldest posted ACK of c and the peer's reactor
\* dispatches the receive completion carrying the immediate value.
RemoteConsumedData(c) ==
        LET s == conn[c]
            p == conn[Peer(c)]
            wr == Head(s.postedAcks)
        IN  /\ s.postedAcks # <<>>
            /\ Alive(s) /\ s.qp_ = "RTS"
            /\ Receiving(p)
            /\ conn' = [conn EXCEPT
                  ![c] = [s EXCEPT !.postedAcks = Tail(@),
                                   !.sentAcks = @ + 1],
                  ![Peer(c)] = onRemoteConsumedData(p, wr.imm_data)]

\* The reactor dispatches the successful completion of a transmitted write.
WriteCompleted(c) ==
        /\ Alive(conn[c]) /\ conn[c].qpRegistered
        /\ conn[c].sentWrites > 0
        /\ Becomes(c, onWriteCompleted([conn[c] EXCEPT !.sentWrites = @ - 1]))

\* The reactor dispatches the successful completion of a transmitted ACK.
AckCompleted(c) ==
        /\ Alive(conn[c]) /\ conn[c].qpRegistered
        /\ conn[c].sentAcks > 0
        /\ Becomes(c, onAckCompleted([conn[c] EXCEPT !.sentAcks = @ - 1]))

\* The work request a failed completion takes out of the reactor's books:
\* the youngest one not yet transmitted, else a transmitted one.
dropWrite(s) ==
    IF s.postedWrites # <<>>
    THEN [s EXCEPT !.postedWrites = SubSeq(@, 1, Len(@) - 1)]
    ELSE [s EXCEPT !.sentWrites = @ - 1]

dropAck(s) ==
    IF s.postedAcks # <<>>
    THEN [s EXCEPT !.postedAcks = SubSeq(@, 1, Len(@) - 1)]
    ELSE [s EXCEPT !.sentAcks = @ - 1]

\* The reactor dispatches a failed completion (a transport failure, or the
\* flush after the queue pair went to ERROR) of a posted RDMA write.
WriteFailed(c) ==
        /\ Alive(conn[c]) /\ conn[c].qpRegistered
        /\ Len(conn[c].postedWrites) + conn[c].sentWrites > 0
        /\ Becomes(c, onError(dropWrite(conn[c]), kWriteRequestId))

\* The same for a posted ACK send.
AckFailed(c) ==
        /\ Alive(conn[c]) /\ conn[c].qpRegistered
        /\ Len(conn[c].postedAcks) + conn[c].sentAcks > 0
        /\ Becomes(c, onError(dropAck(conn[c]), kAckRequestId))

\* The wr_id values of the receive requests of the shared receive queue.
RecvRequestIds == {0, 3}

\* The reactor dispatches a failed receive completion.
RecvFailed(c) ==
    \E wr_id \in RecvRequestIds :
        /\ Alive(conn[c]) /\ conn[c].qpRegistered
        /\ conn[c].qp_ \in {"RTS", "ERROR"}
        /\ Becomes(c, onError(conn[c], wr_id))

\* The loop runs a task deferred by tryCleanup_.
Cleanup(c) ==
    \E u \in UbOutcomes :
        /\ Alive(conn[c])
        /\ conn[c].deferredCleanups > 0
        /\ Becomes(c, cleanup_([conn[c] EXCEPT !.ub = u]))

----------------------------------------------------------------------------
(* Spec: the whole life of the two connections, from construction.         *)

SpecWork ==
    Workload(MaxReads, MaxWrites, MaxCloses, MaxBytes, MaxReadLen, FALSE)

Next ==
    \/ \E c \in Conn : InitFromLoop(c)
    \/ \E c \in Conn : ReadFromLoop(c, SpecWork)
    \/ \E c \in Conn : WriteFromLoop(c, SpecWork)
    \/ \E c \in Conn : CloseFromLoop(c, SpecWork)
    \/ \E c \in Conn : HandleEventsFromLoop(c)
    \/ \E c \in Conn : RemoteProducedData(c)
    \/ \E c \in Conn : RemoteConsumedData(c)
    \/ \E c \in Conn : WriteCompleted(c)
    \/ \E c \in Conn : AckCompleted(c)
    \/ \E c \in Conn : WriteFailed(c)
    \/ \E c \in Conn : AckFailed(c)
    \/ \E c \in Conn : RecvFailed(c)
    \/ \E c \in Conn : Cleanup(c)

Spec == Init /\ [][Next]_vars

----------------------------------------------------------------------------
(* SpecData and SpecStream start when both handshakes are over: both       *)
(* connections are ESTABLISHED and nothing has been submitted yet.         *)

EstablishedConn(dial) ==
    [InitConn(dial) EXCEPT !.inited = TRUE,
                           !.socket_ = TRUE,
                           !.registered = "IN",
                           !.buffers = "mapped",
                           !.qp_ = "RTS",
                           !.qpRegistered = TRUE,
                           !.state_ = ESTABLISHED]

InitEstablished == conn = [c \in Conn |-> EstablishedConn(c = "A")]

\* SpecData: data transfer with close and failed completions.
DataWork ==
    Workload(DataReads, DataWrites, DataCloses, DataBytes, DataReadLen, FALSE)

NextData ==
    \/ \E c \in Conn : ReadFromLoop(c, DataWork)
    \/ \E c \in Conn : WriteFromLoop(c, DataWork)
    \/ \E c \in Conn : CloseFromLoop(c, DataWork)
    \/ \E c \in Conn : RemoteProducedData(c)
    \/ \E c \in Conn : RemoteConsumedData(c)
    \/ \E c \in Conn : WriteCompleted(c)
    \/ \E c \in Conn : AckCompleted(c)
    \/ \E c \in Conn : WriteFailed(c)
    \/ \E c \in Conn : AckFailed(c)
    \/ \E c \in Conn : Cleanup(c)

SpecData == InitEstablished /\ [][NextData]_vars

\* SpecClose: ESTABLISHED connections with every source of errors: close,
\* socket events and failed completions.
CloseWork ==
    Workload(CloseReads, CloseWrites, CloseCloses, CloseBytes, CloseReadLen,
             FALSE)

NextClose ==
    \/ \E c \in Conn : ReadFromLoop(c, CloseWork)
    \/ \E c \in Conn : WriteFromLoop(c, CloseWork)
    \/ \E c \in Conn : CloseFromLoop(c, CloseWork)
    \/ \E c \in Conn : HandleEventsFromLoop(c)
    \/ \E c \in Conn : RemoteProducedData(c)
    \/ \E c \in Conn : RemoteConsumedData(c)
    \/ \E c \in Conn : WriteCompleted(c)
    \/ \E c \in Conn : AckCompleted(c)
    \/ \E c \in Conn : WriteFailed(c)
    \/ \E c \in Conn : AckFailed(c)
    \/ \E c \in Conn : RecvFailed(c)
    \/ \E c \in Conn : Cleanup(c)

SpecClose == InitEstablished /\ [][NextClose]_vars

\* SpecLive: SpecData's steps on a smaller workload, with the scheduling the
\* loop and the reactor guarantee: a deferred cleanup_ is eventually run, and
\* every posted RDMA write and every posted ACK send eventually gets a
\* completion, successful or failed.
LiveWork ==
    Workload(LiveReads, LiveWrites, LiveCloses, LiveBytes, LiveReadLen, FALSE)

NextLive ==
    \/ \E c \in Conn : ReadFromLoop(c, LiveWork)
    \/ \E c \in Conn : WriteFromLoop(c, LiveWork)
    \/ \E c \in Conn : CloseFromLoop(c, LiveWork)
    \/ \E c \in Conn : RemoteProducedData(c)
    \/ \E c \in Conn : RemoteConsumedData(c)
    \/ \E c \in Conn : WriteCompleted(c)
    \/ \E c \in Conn : AckCompleted(c)
    \/ \E c \in Conn : WriteFailed(c)
    \/ \E c \in Conn : AckFailed(c)
    \/ \E c \in Conn : Cleanup(c)

LiveFairness ==
    \A c \in Conn :
        /\ WF_vars(Cleanup(c))
        /\ WF_vars(WriteCompleted(c) \/ WriteFailed(c))
        /\ WF_vars(AckCompleted(c) \/ AckFailed(c))

SpecLive == InitEstablished /\ [][NextLive]_vars /\ LiveFairness

\* SpecFlow: SpecStream's steps on a smaller workload, with a reader that
\* keeps submitting the reads of its workload and the delivery the NIC and
\* the reactor guarantee on a healthy connection: a posted RDMA write
\* and a posted ACK are eventually transmitted and the peer's reactor
\* dispatches them, and the completion of a transmitted work request is
\* eventually dispatched.
FlowWork ==
    Workload(FlowReads, FlowWrites, 0, FlowBytes, FlowReadLen, FALSE)

NextFlow ==
    \/ \E c \in Conn : ReadFromLoop(c, FlowWork)
    \/ \E c \in Conn : WriteFromLoop(c, FlowWork)
    \/ \E c \in Conn : RemoteProducedData(c)
    \/ \E c \in Conn : RemoteConsumedData(c)
    \/ \E c \in Conn : WriteCompleted(c)
    \/ \E c \in Conn : AckCompleted(c)

\* ReadFromLoop(c, FlowWork) is enabled, and a step of it.
CanRead(c) ==
    /\ conn[c].inited /\ Alive(conn[c])
    /\ c = "B" \/ FlowWork.duplex
    /\ conn[c].nextBufferBeingRead_ < FlowWork.reads

ReadStep(c) ==
    conn'[c].nextBufferBeingRead_ = conn[c].nextBufferBeingRead_ + 1

\* RemoteProducedData(c) is enabled, and a step of it.
CanTransmitWrite(c) ==
    /\ conn[c].postedWrites # <<>>
    /\ Alive(conn[c]) /\ conn[c].qp_ = "RTS" /\ conn[c].buffers = "mapped"
    /\ Receiving(conn[Peer(c)])
    /\ Head(conn[c].postedWrites).addr
          + Head(conn[c].postedWrites).length <= kBufferSize
    /\ Head(conn[c].postedWrites).remote_addr
          + Head(conn[c].postedWrites).length <= kBufferSize

TransmitWriteStep(c) == conn'[c].sentWrites = conn[c].sentWrites + 1

\* RemoteConsumedData(c) is enabled, and a step of it.
CanTransmitAck(c) ==
    /\ conn[c].postedAcks # <<>>
    /\ Alive(conn[c]) /\ conn[c].qp_ = "RTS"
    /\ Receiving(conn[Peer(c)])

TransmitAckStep(c) == conn'[c].sentAcks = conn[c].sentAcks + 1

\* Weak fairness of ReadFromLoop, RemoteProducedData and RemoteConsumedData,
\* written out (WF_v(A) is []<>~ENABLED <<A>>_v \/ []<><<A>>_v), and weak
\* fairness of the completions.
FlowFairness ==
    \A c \in Conn :
        /\ ([]<>(~CanRead(c))) \/ ([]<><<ReadStep(c)>>_vars)
        /\ ([]<>(~CanTransmitWrite(c))) \/ ([]<><<TransmitWriteStep(c)>>_vars)
        /\ ([]<>(~CanTransmitAck(c))) \/ ([]<><<TransmitAckStep(c)>>_vars)
        /\ WF_vars(WriteCompleted(c))
        /\ WF_vars(AckCompleted(c))

SpecFlow == InitEstablished /\ [][NextFlow]_vars /\ FlowFairness

\* SpecStream: data transfer in both directions, without errors.
StreamWork ==
    Workload(StreamReads, StreamWrites, 0, StreamBytes, StreamReadLen, FALSE)

NextStream ==
    \/ \E c \in Conn : ReadFromLoop(c, StreamWork)
    \/ \E c \in Conn : WriteFromLoop(c, StreamWork)
    \/ \E c \in Conn : RemoteProducedData(c)
    \/ \E c \in Conn : RemoteConsumedData(c)
    \/ \E c \in Conn : WriteCompleted(c)
    \/ \E c \in Conn : AckCompleted(c)

SpecStream == InitEstablished /\ [][NextStream]_vars

----------------------------------------------------------------------------
(* Observations used by the properties.                                    *)

\* The bytes handed to the read callbacks of c that were called with
\* success, in the order of the calls.
RECURSIVE concatData(_)
concatData(calls) ==
    IF calls = <<>> THEN <<>>
    ELSE (IF Head(calls).error = kSuccess THEN Head(calls).data ELSE <<>>)
         \o concatData(Tail(calls))

Delivered(c) == concatData(conn[c].readCalls)

\* The bytes c has queued for writing, in submission order.
Submitted(c) == [i \in 1..conn[c].bytesSubmitted |-> i]

IsPrefix(a, b) == Len(a) <= Len(b) /\ \A i \in 1..Len(a) : a[i] = b[i]

----------------------------------------------------------------------------
(* Properties.                                                             *)

\* C1: the bytes delivered to B's read callbacks, in callback order, are
\* always a prefix of the bytes submitted to A's writes, in submission order,
\* and are all of them once B has consumed every submitted byte and has no
\* read pending.
C1_StreamIntegrity ==
    /\ IsPrefix(Delivered("B"), Submitted("A"))
    /\ (/\ conn["B"].inboxTail = conn["A"].bytesSubmitted
        /\ conn["B"].readOperations_ = <<>>)
       => Delivered("B") = Submitted("A")

\* C1 witness: all bytes arrived after the stream went around the ring more
\* than twice, and a chunk was posted as two spans.
C1_Witness ==
    /\ conn["A"].bytesSubmitted > 2 * kBufferSize
    /\ Delivered("B") = Submitted("A")
    /\ conn["B"].inboxTail > 2 * kBufferSize
    /\ conn["A"].nextWriteCallbackToCall_ = 2
    /\ Len(conn["B"].readCalls) = 3


\* C2: every read callback and every write callback is called when the
\* invocation counter of its kind equals its submission sequence number, so
\* callbacks of one kind are called in submission order.
C2_CallbackOrder ==
    \A c \in Conn :
        /\ \A i \in 1..Len(conn[c].readCalls) :
              conn[c].readCalls[i].seq = conn[c].readCalls[i].expected
        /\ \A i \in 1..Len(conn[c].writeCalls) :
              conn[c].writeCalls[i].seq = conn[c].writeCalls[i].expected

\* C2 witness: B's first read completed, its second read was failed by the
\* error path, and A's second write was submitted after A's error.
C2_Witness ==
    /\ Len(conn["B"].readCalls) = 2
    /\ conn["B"].readCalls[1].error = kSuccess
    /\ conn["B"].readCalls[2].error = "ConnectionClosed"
    /\ Len(conn["A"].writeCalls) = 2
    /\ conn["A"].writeCalls[1].error = kSuccess
    /\ conn["A"].writeCalls[2].error = "Ibv"

\* The sequence numbers of the operations in a queue or a callback log.
Seqs(records) == {records[i].seq : i \in 1..Len(records)}

NoDuplicates(records) == Cardinality(Seqs(records)) = Len(records)

\* C3: no callback is called twice, every submitted operation is either still
\* queued or has had its callback called, and once an error is latched both
\* queues are empty, so every operation submitted so far has been called back.
C3_ExactlyOnce ==
    \A c \in Conn :
        LET s == conn[c] IN
        /\ NoDuplicates(s.readCalls)
        /\ NoDuplicates(s.writeCalls)
        /\ Seqs(s.readCalls) \cap Seqs(s.readOperations_) = {}
        /\ Seqs(s.writeCalls) \cap Seqs(s.writeOperations_) = {}
        /\ Seqs(s.readCalls) \cup Seqs(s.readOperations_)
              = 0..(s.nextBufferBeingRead_ - 1)
        /\ Seqs(s.writeCalls) \cup Seqs(s.writeOperations_)
              = 0..(s.nextBufferBeingWritten_ - 1)
        /\ s.error_ # kSuccess =>
              /\ s.readOperations_ = <<>>
              /\ s.writeOperations_ = <<>>

\* C3 witness: on B a read completed and a queued read was failed by close;
\* on A a write completed and a queued write was failed by a failed
\* completion.
C3_Witness ==
    /\ conn["B"].error_ = "ConnectionClosed"
    /\ Len(conn["B"].readCalls) = 2
    /\ conn["B"].readCalls[1].error = kSuccess
    /\ conn["B"].readCalls[2].error = "ConnectionClosed"
    /\ conn["B"].readCalls[2].length = 0
    /\ conn["A"].error_ = "Ibv"
    /\ Len(conn["A"].writeCalls) = 2
    /\ conn["A"].writeCalls[1].error = kSuccess
    /\ conn["A"].writeCalls[2].error = "Ibv"
    /\ conn["A"].bytesSubmitted = kBufferSize + 1

\* The last entry of a callback log.
Last(calls) == calls[Len(calls)]

\* C4: a read or a write submitted when an error is latched has its callback
\* called in the same step with the latched error, and the step changes
\* nothing else but the submission and invocation counters: the operation is
\* not queued and no ring buffer, counter or work request is touched.
C4_PostErrorSubmission ==
    [][\A c \in Conn :
          LET s == conn[c]
              t == conn'[c]
          IN  s.error_ # kSuccess =>
                /\ t.nextBufferBeingRead_ # s.nextBufferBeingRead_ =>
                      /\ Len(t.readCalls) = Len(s.readCalls) + 1
                      /\ t.readCalls = Append(s.readCalls, Last(t.readCalls))
                      /\ Last(t.readCalls).seq = s.nextBufferBeingRead_
                      /\ Last(t.readCalls).error = s.error_
                      /\ ~Last(t.readCalls).queued
                      /\ [t EXCEPT
                            !.readCalls = s.readCalls,
                            !.nextBufferBeingRead_ = s.nextBufferBeingRead_,
                            !.nextReadCallbackToCall_ = s.nextReadCallbackToCall_]
                         = s
                /\ t.nextBufferBeingWritten_ # s.nextBufferBeingWritten_ =>
                      /\ Len(t.writeCalls) = Len(s.writeCalls) + 1
                      /\ t.writeCalls = Append(s.writeCalls, Last(t.writeCalls))
                      /\ Last(t.writeCalls).seq = s.nextBufferBeingWritten_
                      /\ Last(t.writeCalls).error = s.error_
                      /\ ~Last(t.writeCalls).queued
                      /\ [t EXCEPT
                            !.writeCalls = s.writeCalls,
                            !.nextBufferBeingWritten_ = s.nextBufferBeingWritten_,
                            !.nextWriteCallbackToCall_ = s.nextWriteCallbackToCall_]
                         = s
      ]_vars

\* C4 witness: the write on A was submitted after A's handshake failed and
\* the read on B after B's end of file; both were called back with the
\* latched error with nothing queued.
C4_Witness ==
    /\ conn["A"].error_ = "ShortRead"
    /\ conn["A"].writeCalls = <<[seq |-> 0, expected |-> 0,
                                 error |-> "ShortRead", queued |-> FALSE]>>
    /\ conn["A"].writeOperations_ = <<>>
    /\ conn["B"].error_ = "EOF"
    /\ Len(conn["B"].readCalls) = 1
    /\ conn["B"].readCalls[1].error = "EOF"
    /\ ~conn["B"].readCalls[1].queued
    /\ conn["B"].readOperations_ = <<>>

\* C5: once an error is latched no step changes error_ or runs handleError
\* again, and a close then changes nothing at all (but the count of close
\* calls kept for this property).
C5_FirstErrorSticks ==
    [][\A c \in Conn :
          LET s == conn[c]
              t == conn'[c]
          IN  s.error_ # kSuccess =>
                /\ t.error_ = s.error_
                /\ t.handleErrorRuns = s.handleErrorRuns
                /\ t.closeCalls # s.closeCalls =>
                      t = [s EXCEPT !.closeCalls = @ + 1]
      ]_vars

\* C5 witness: A was closed after the error of a failed completion and kept
\* that error; B was closed twice and ran handleError once.
C5_Witness ==
    /\ conn["A"].error_ = "Ibv"
    /\ conn["A"].closeCalls >= 1
    /\ conn["A"].handleErrorRuns = 1
    /\ conn["B"].error_ = "ConnectionClosed"
    /\ conn["B"].closeCalls = 2
    /\ conn["B"].handleErrorRuns = 1

\* C6: every run of cleanup_ found an error latched and both in-flight
\* counters at zero, and when the queue pair and the buffers are released no
\* posted RDMA write or ACK send is outstanding.
C6_CleanupWhenQuiescent ==
    \A c \in Conn :
        LET s == conn[c] IN
        /\ \A i \in 1..Len(s.cleanupCounters) :
              /\ s.cleanupCounters[i].error # kSuccess
              /\ s.cleanupCounters[i].writes = 0
              /\ s.cleanupCounters[i].acks = 0
        /\ (s.qp_ = "released" \/ s.buffers = "released") =>
              /\ s.error_ # kSuccess
              /\ s.postedWrites = <<>> /\ s.sentWrites = 0
              /\ s.postedAcks = <<>> /\ s.sentAcks = 0

\* C6 witness: A was closed with an RDMA write posted and B with an ACK posted;
\* both cleanups ran after the completions.
C6_Witness ==
    /\ conn["A"].cleanupRuns = 1
    /\ conn["A"].error_ = "ConnectionClosed"
    /\ conn["A"].peerInboxHead_ > 0
    /\ conn["A"].outboxTail = 0
    /\ conn["B"].cleanupRuns = 1
    /\ conn["B"].error_ = "ConnectionClosed"
    /\ conn["B"].inboxTail > 0
    /\ conn["B"].buffers = "released"

\* The case of C8: A is ESTABLISHED, its only write was queued and fits in the
\* outbox, and A was closed before any completion or ACK for it arrived.
ClosedMidFlight ==
    LET s == conn["A"] IN
    /\ s.state_ = ESTABLISHED
    /\ s.nextBufferBeingWritten_ = 1
    /\ s.bytesSubmitted \in 1..kBufferSize
    /\ s.error_ = "ConnectionClosed"
    /\ s.outboxTail = 0
    /\ s.numWritesInFlight_ = 1
    /\ Len(s.postedWrites) + s.sentWrites = 1

\* C8 as stated: in that case the write's callback was called with
\* ConnectionClosed.
C8_Original ==
    ClosedMidFlight =>
        /\ Len(conn["A"].writeCalls) >= 1
        /\ conn["A"].writeCalls[1].error = "ConnectionClosed"

\* C8 as amended: in that case the write's callback was called once, with
\* success, when its bytes were copied into the outbox; the close did not call
\* it again and left no write queued.
C8_CloseMidFlight ==
    ClosedMidFlight =>
        /\ conn["A"].writeCalls =
              <<[seq |-> 0, expected |-> 0, error |-> kSuccess,
                 queued |-> TRUE]>>
        /\ conn["A"].writeOperations_ = <<>>

\* C8 witness: the case itself, with the RDMA write still posted.
C8_Witness ==
    /\ ClosedMidFlight
    /\ Len(conn["A"].postedWrites) = 1
    /\ conn["A"].qp_ = "ERROR"
    /\ conn["A"].bytesSubmitted = kBufferSize

\* The event masks of C9.
PeerEofEvents == {{"IN"}, {"HUP"}, {"IN", "HUP"}}

\* The step of C9: c is in RECV_ADDR without an error, its peer's socket is
\* gone, and the socket handler runs with `events`, the read being short.
PeerEofStep(c, events) ==
    /\ conn[c].state_ = RECV_ADDR
    /\ conn[c].error_ = kSuccess
    /\ PeerGone(c)
    /\ conn' = [conn EXCEPT ![c] = handleEventsFromLoop(conn[c], events, "short")]

\* In the step, every operation pending on c was called back with `error`,
\* in order, and the queues were emptied.
PendingFailedWith(c, error) ==
    LET s == conn[c]
        t == conn'[c]
    IN  /\ t.error_ = error
        /\ t.readOperations_ = <<>>
        /\ t.writeOperations_ = <<>>
        /\ Len(t.readCalls) = Len(s.readCalls) + Len(s.readOperations_)
        /\ Len(t.writeCalls) = Len(s.writeCalls) + Len(s.writeOperations_)
        /\ \A i \in 1..Len(s.readOperations_) :
              /\ t.readCalls[Len(s.readCalls) + i].seq = s.readOperations_[i].seq
              /\ t.readCalls[Len(s.readCalls) + i].error = error
        /\ \A i \in 1..Len(s.writeOperations_) :
              /\ t.writeCalls[Len(s.writeCalls) + i].seq = s.writeOperations_[i].seq
              /\ t.writeCalls[Len(s.writeCalls) + i].error = error

\* C9 as stated: the step latches EOF and fails every pending operation with
\* EOF, whatever the mask.
C9_Original ==
    [][\A c \in Conn : \A events \in PeerEofEvents :
          PeerEofStep(c, events) => PendingFailedWith(c, "EOF")
      ]_vars

\* C9 as amended: the step latches EOF when the mask is EPOLLHUP alone and
\* ShortRead when the mask has EPOLLIN (with or without EPOLLHUP), and fails
\* every pending operation with the error it latched.
C9_PeerEofInHandshake ==
    [][\A c \in Conn : \A events \in PeerEofEvents :
          PeerEofStep(c, events) =>
              PendingFailedWith(c, IF "IN" \in events THEN "ShortRead"
                                                      ELSE "EOF")
      ]_vars

\* C9 witness: B never wrote its setup blob and its socket is gone; A, in
\* RECV_ADDR with a write pending, read short and failed the write.
C9_Witness ==
    /\ conn["B"].state_ < RECV_ADDR
    /\ conn["B"].socketClosed
    /\ conn["A"].state_ = RECV_ADDR
    /\ conn["A"].error_ = "ShortRead"
    /\ conn["A"].bytesSubmitted = 1
    /\ conn["A"].writeCalls =
          <<[seq |-> 0, expected |-> 0, error |-> "ShortRead",
             queued |-> TRUE]>>

\* C10: in every state, for the inbox and the outbox of each connection,
\* tail <= head and head - tail <= capacity.
C10_RingBounds ==
    \A c \in Conn :
        /\ conn[c].inboxTail <= conn[c].inboxHead
        /\ conn[c].inboxHead - conn[c].inboxTail <= kBufferSize
        /\ conn[c].outboxTail <= conn[c].outboxHead
        /\ conn[c].outboxHead - conn[c].outboxTail <= kBufferSize

\* C10 witness: after the stream went around the ring, A's outbox is full and
\* B's inbox is full.
C10_Witness ==
    /\ conn["A"].outboxTail >= kBufferSize
    /\ conn["A"].outboxHead - conn["A"].outboxTail = kBufferSize
    /\ conn["B"].inboxTail >= kBufferSize
    /\ conn["B"].inboxHead - conn["B"].inboxTail = kBufferSize

\* The queue pair, the memory regions and the buffers of c are released.
Released(c) ==
    /\ conn[c].cleanupRuns >= 1
    /\ ~conn[c].qpRegistered
    /\ conn[c].qp_ = "released"
    /\ conn[c].buffers = "released"

\* C7: under the fair scheduling of SpecLive, once an error is latched on a
\* connection whose initialisation created the queue pair, cleanup_
\* eventually runs and releases the queue pair, the memory regions and the
\* buffers.
C7_TeardownTerminates ==
    \A c \in Conn :
        (conn[c].error_ # kSuccess /\ conn[c].qp_ # "null") ~> Released(c)

\* C7 witness: A failed with an RDMA write posted and B was closed with an
\* ACK posted; both were released after the completions.
C7_Witness ==
    /\ conn["A"].error_ = "Ibv"
    /\ conn["A"].peerInboxHead_ > 0
    /\ conn["A"].outboxTail = 0
    /\ Released("A")
    /\ conn["B"].error_ = "ConnectionClosed"
    /\ conn["B"].inboxTail > 0
    /\ conn["B"].numAcksInFlight_ = 0
    /\ Released("B")

RECURSIVE sumLengths(_)
sumLengths(wrs) ==
    IF wrs = <<>> THEN 0 ELSE Head(wrs).imm_data + sumLengths(Tail(wrs))

\* C11: for the sender c and its peer, peerInboxHead_ minus the tail of the
\* peer's inbox is at most the capacity, and the posted RDMA writes land right
\* after the head of the peer's inbox, so that no posted write covers bytes
\* the peer has not consumed.
C11_NoPeerInboxOverrun ==
    \A c \in Conn :
        LET s == conn[c]
            p == conn[Peer(c)]
        IN  /\ s.peerInboxHead_ - p.inboxTail <= kBufferSize
            /\ s.peerInboxHead_ = p.inboxHead + sumLengths(s.postedWrites)
            /\ p.inboxTail <= p.inboxHead

\* C11 witness: after the stream went around the ring, with an ACK of B still
\* in transit, A has a write posted that fills B's inbox up to the bytes of
\* that ACK.
C11_Witness ==
    /\ conn["B"].inboxTail >= kBufferSize
    /\ conn["B"].postedAcks # <<>>
    /\ conn["A"].postedWrites # <<>>
    /\ conn["A"].peerInboxHead_ - conn["B"].inboxTail
          = kBufferSize - sumLengths(conn["B"].postedAcks)

\* B has submitted all the reads of its workload and they did not consume
\* every byte A has submitted.
ReaderFellShort ==
    /\ conn["B"].nextBufferBeingRead_ = FlowReads
    /\ conn["B"].readOperations_ = <<>>
    /\ conn["B"].inboxTail < conn["A"].bytesSubmitted

\* The write of A with sequence number n was called back with success, in
\* its turn.
WriteSucceeded(n) ==
    /\ Len(conn["A"].writeCalls) > n
    /\ conn["A"].writeCalls[n + 1].seq = n
    /\ conn["A"].writeCalls[n + 1].expected = n
    /\ conn["A"].writeCalls[n + 1].error = kSuccess

\* C12: a write of A stays queued only while the outbox is full; and under
\* the scheduling of SpecFlow every write submitted on A is eventually called
\* back with success, in submission order, unless the reads of B ended
\* without consuming every submitted byte.
C12_BackpressureProgress ==
    /\ [](conn["A"].writeOperations_ # <<>> =>
             conn["A"].outboxHead - conn["A"].outboxTail = kBufferSize)
    /\ \A n \in 0..(FlowWrites - 1) :
           (conn["A"].nextBufferBeingWritten_ > n)
               ~> (WriteSucceeded(n) \/ ReaderFellShort)

\* C12 witness: a single write larger than the capacity was called back with
\* success after B consumed all of it.
C12_Witness ==
    /\ conn["A"].nextBufferBeingWritten_ = 1
    /\ conn["A"].bytesSubmitted > kBufferSize
    /\ WriteSucceeded(0)
    /\ conn["B"].inboxTail = conn["A"].bytesSubmitted

\* C13: head-of-line ordering.  Only the front operation of a queue has
\* made progress: every later read operation has consumed no byte and every
\* later write operation has produced none; the front operation is
\* incomplete (a complete one is popped in the same loop run); the queue
\* holds consecutive sequence numbers and the front one is the next callback
\* due, so no callback of a queued operation, zero-length or not, has been
\* invoked ahead of it.
C13_HeadOfLine ==
    \A c \in Conn :
        LET s == conn[c]
            r == s.readOperations_
            w == s.writeOperations_
        IN  /\ \A i \in 2..Len(r) : r[i].buf = <<>>
            /\ \A i \in 2..Len(w) : w[i].written = 0
            /\ r # <<>> => ~readCompleted(r[1])
            /\ w # <<>> => ~writeCompleted(w[1])
            /\ \A i \in 1..Len(r) : r[i].seq = s.nextReadCallbackToCall_ + i - 1
            /\ \A i \in 1..Len(w) : w[i].seq = s.nextWriteCallbackToCall_ + i - 1
            /\ \A i \in 1..Len(r), k \in 1..Len(s.readCalls) :
                   s.readCalls[k].seq < r[i].seq
            /\ \A i \in 1..Len(w), k \in 1..Len(s.writeCalls) :
                   s.writeCalls[k].seq < w[i].seq

\* A zero-length read waits behind a read that lacks data, and a zero-length
\* write waits behind a write that lacks room.
C13_Witness ==
    LET r == conn["B"].readOperations_
        w == conn["A"].writeOperations_
    IN  /\ Len(r) >= 2 /\ r[2].sized /\ r[2].len = 0
        /\ conn["B"].inboxHead = conn["B"].inboxTail
        /\ Len(w) >= 2 /\ Len(w[2].data) = 0
        /\ w[1].written > 0
        /\ conn["A"].outboxHead - conn["A"].outboxTail = kBufferSize

\* C14: the bytes in flight are bytes of the outbox.  numBytesInFlight_ is
\* never negative (the unsigned subtraction of onRemoteConsumedData never
\* wraps) and never more than the occupancy of the outbox, so the skip in
\* the peek of the write loop always fits and the peek never fails; every
\* ACK on its way to the connection, and all of them together, carry no
\* more than numBytesInFlight_.
C14_BytesInFlightBounds ==
    \A c \in Conn :
        LET s == conn[c]
            acks == conn[Peer(c)].postedAcks
        IN  /\ 0 <= s.numBytesInFlight_
            /\ s.numBytesInFlight_ <= s.outboxHead - s.outboxTail
            /\ \A i \in 1..Len(acks) : acks[i].imm_data <= s.numBytesInFlight_
            /\ sumLengths(acks) <= s.numBytesInFlight_
            /\ ~s.threw

\* After a first ACK was taken, the whole outbox is in flight and an ACK for
\* all of it is on its way.
C14_Witness ==
    /\ conn["A"].outboxTail > 0
    /\ conn["A"].numBytesInFlight_ = kBufferSize
    /\ conn["A"].outboxHead - conn["A"].outboxTail = kBufferSize
    /\ conn["B"].postedAcks # <<>>
    /\ sumLengths(conn["B"].postedAcks) = conn["A"].numBytesInFlight_

\* C15: the in-flight counters count the outstanding work requests.
\* numWritesInFlight_ is the number of RDMA writes posted whose completion
\* has not been dispatched (not yet transmitted, or transmitted), and
\* numAcksInFlight_ the same for the ACK sends; neither is negative.
C15_InFlightCounters ==
    \A c \in Conn :
        LET s == conn[c]
        IN  /\ s.numWritesInFlight_ = Len(s.postedWrites) + s.sentWrites
            /\ s.numAcksInFlight_ = Len(s.postedAcks) + s.sentAcks
            /\ s.numWritesInFlight_ >= 0
            /\ s.numAcksInFlight_ >= 0
            /\ s.sentWrites >= 0
            /\ s.sentAcks >= 0

\* A's posted write has failed and was counted out, while B's ACK for the
\* bytes it read is transmitted and its completion is still due.
C15_Witness ==
    /\ conn["A"].numWritesInFlight_ = 0
    /\ conn["A"].error_ = "Ibv"
    /\ conn["A"].bytesSubmitted > 0
    /\ conn["B"].numAcksInFlight_ = 1
    /\ conn["B"].sentAcks = 1
    /\ Len(conn["B"].readCalls) > 0

\* C16: failed completions are classified by wr_id.  Every dispatch of a
\* failed completion leaves error_ set: to IbvError when no error was set,
\* to the earlier error otherwise.  A failed RDMA write (wr_id 1) lowers
\* numWritesInFlight_ by one and leaves numAcksInFlight_ alone; a failed ACK
\* (wr_id 2) lowers numAcksInFlight_ by one and leaves numWritesInFlight_
\* alone; a failed receive (any other wr_id) changes neither.  In the first
\* two cases tryCleanup_ runs after the decrement: cleanup_ is deferred in
\* that step exactly when the decrement left both counters at zero.
Latched(s, t) ==
    t.error_ = IF s.error_ = kSuccess THEN "Ibv" ELSE s.error_

DeferredAfterDecrement(s, t) ==
    t.deferredCleanups = s.deferredCleanups +
        (IF t.numWritesInFlight_ = 0 /\ t.numAcksInFlight_ = 0 THEN 1 ELSE 0)

C16_OnErrorByWrId ==
    [][\A c \in Conn :
          LET s == conn[c]
              t == conn'[c]
          IN  /\ WriteFailed(c) =>
                    /\ Latched(s, t)
                    /\ t.numWritesInFlight_ = s.numWritesInFlight_ - 1
                    /\ t.numAcksInFlight_ = s.numAcksInFlight_
                    /\ DeferredAfterDecrement(s, t)
              /\ AckFailed(c) =>
                    /\ Latched(s, t)
                    /\ t.numAcksInFlight_ = s.numAcksInFlight_ - 1
                    /\ t.numWritesInFlight_ = s.numWritesInFlight_
                    /\ DeferredAfterDecrement(s, t)
              /\ RecvFailed(c) =>
                    /\ Latched(s, t)
                    /\ t.numWritesInFlight_ = s.numWritesInFlight_
                    /\ t.numAcksInFlight_ = s.numAcksInFlight_
                    /\ t.deferredCleanups = s.deferredCleanups +
                           (IF /\ s.error_ = kSuccess
                               /\ s.numWritesInFlight_ = 0
                               /\ s.numAcksInFlight_ = 0
                            THEN 1 ELSE 0)]_vars

\* B consumed bytes and posted an ACK that never reached A: the ACK failed,
\* which latched IbvError on B, took the ACK out of numAcksInFlight_ and
\* deferred cleanup_; A has an IbvError too and no write left in flight.
C16_Witness ==
    /\ conn["B"].inboxTail > 0
    /\ conn["A"].outboxTail = 0
    /\ conn["B"].postedAcks = <<>> /\ conn["B"].sentAcks = 0
    /\ conn["B"].numAcksInFlight_ = 0
    /\ conn["B"].error_ = "Ibv"
    /\ conn["B"].handleErrorRuns = 1
    /\ conn["B"].deferredCleanups + conn["B"].cleanupRuns = 1
    /\ conn["A"].error_ = "Ibv"
    /\ conn["A"].numWritesInFlight_ = 0

\* C17: the state only moves forward, one step at a time.  In every step
\* state_ stays or grows by one.  INITIALIZING -> SEND_ADDR happens only in
\* the initFromLoop task and leaves no error; SEND_ADDR -> RECV_ADDR only in
\* a socket event whose class is EPOLLOUT (no EPOLLERR, no EPOLLIN) with the
\* whole blob written; RECV_ADDR -> ESTABLISHED only in a socket event whose
\* class is EPOLLIN (no EPOLLERR) with the whole blob read.  ShortWrite is
\* latched only in SEND_ADDR and ShortRead only in RECV_ADDR, and a step
\* that latches an error, these two included, leaves state_ as it was.
SocketEvent(c, events, io) ==
    Becomes(c, handleEventsFromLoop(conn[c], events, io))

C17_StateForward ==
    [][\A c \in Conn :
          LET s == conn[c]
              t == conn'[c]
          IN  /\ t.state_ \in {s.state_, s.state_ + 1}
              /\ t.state_ \in INITIALIZING..ESTABLISHED
              /\ (s.state_ = INITIALIZING /\ t.state_ = SEND_ADDR) =>
                    /\ ~s.inited /\ t.inited
                    /\ t.error_ = kSuccess
                    /\ t.socket_ /\ t.qp_ = "INIT" /\ t.buffers = "mapped"
                    /\ t.registered = "OUT"
              /\ (s.state_ = SEND_ADDR /\ t.state_ = RECV_ADDR) =>
                    \E events \in SUBSET {"OUT", "HUP"} :
                        /\ "OUT" \in events
                        /\ SocketEvent(c, events, "full")
              /\ (s.state_ = RECV_ADDR /\ t.state_ = ESTABLISHED) =>
                    \E events \in SUBSET {"IN", "OUT", "HUP"} :
                        /\ "IN" \in events
                        /\ SocketEvent(c, events, "full")
              /\ (s.error_ = kSuccess /\ t.error_ # kSuccess) =>
                    /\ t.state_ = s.state_
                    /\ t.error_ = "ShortWrite" => s.state_ = SEND_ADDR
                    /\ t.error_ = "ShortRead" => s.state_ = RECV_ADDR
              /\ (s.state_ = SEND_ADDR /\ s.error_ = kSuccess
                  /\ SocketEvent(c, {"OUT"}, "short")) =>
                     t.error_ = "ShortWrite" /\ t.state_ = SEND_ADDR
              /\ (s.state_ = RECV_ADDR /\ s.error_ = kSuccess
                  /\ SocketEvent(c, {"IN"}, "short")) =>
                     t.error_ = "ShortRead" /\ t.state_ = RECV_ADDR]_vars

\* A went through the whole handshake; B wrote its blob and then read A's
\* blob short.
C17_Witness ==
    /\ conn["A"].state_ = ESTABLISHED
    /\ conn["A"].error_ = kSuccess
    /\ conn["B"].state_ = RECV_ADDR
    /\ conn["B"].error_ = "ShortRead"

\* C18: nothing happens on the data path before the handshake is over, and
\* nothing queued is lost.  While state_ is not ESTABLISHED no RDMA write or
\* ACK has been posted, the ring counters and in-flight counters are zero,
\* and no callback has been called with success; without an error the two
\* queues hold every operation submitted so far, in submission order and
\* untouched.  Once ESTABLISHED without an error, the queues hold only what
\* cannot be served now: a queued write means a full outbox and a queued
\* read means an empty inbox and an incomplete front, so what was queued
\* during the handshake was served by the transition itself.
Untouched(c) ==
    LET s == conn[c]
    IN  /\ s.postedWrites = <<>> /\ s.postedAcks = <<>>
        /\ s.sentWrites = 0 /\ s.sentAcks = 0
        /\ s.numWritesInFlight_ = 0 /\ s.numAcksInFlight_ = 0
        /\ s.numBytesInFlight_ = 0 /\ s.peerInboxHead_ = 0
        /\ s.inboxHead = 0 /\ s.inboxTail = 0
        /\ s.outboxHead = 0 /\ s.outboxTail = 0
        /\ \A k \in 1..Len(s.readCalls) : s.readCalls[k].error # kSuccess
        /\ \A k \in 1..Len(s.writeCalls) : s.writeCalls[k].error # kSuccess

AllQueued(c) ==
    LET s == conn[c]
    IN  /\ Len(s.readOperations_) = s.nextBufferBeingRead_
        /\ Len(s.writeOperations_) = s.nextBufferBeingWritten_
        /\ \A i \in 1..Len(s.readOperations_) :
               /\ s.readOperations_[i].seq = i - 1
               /\ s.readOperations_[i].buf = <<>>
        /\ \A i \in 1..Len(s.writeOperations_) :
               /\ s.writeOperations_[i].seq = i - 1
               /\ s.writeOperations_[i].written = 0
        /\ s.readCalls = <<>> /\ s.writeCalls = <<>>

Drained(c) ==
    LET s == conn[c]
    IN  /\ s.writeOperations_ # <<>> =>
               /\ s.outboxHead - s.outboxTail = kBufferSize
               /\ ~writeCompleted(Head(s.writeOperations_))
        /\ s.readOperations_ # <<>> =>
               /\ s.inboxHead = s.inboxTail
               /\ ~readCompleted(Head(s.readOperations_))

EventMasks == SUBSET {"ERR", "IN", "OUT", "HUP"}

OnlyLatched(s, t, error) ==
    /\ t.error_ = error
    /\ t.state_ = s.state_
    /\ ~t.threw
    /\ t.handleErrorRuns = s.handleErrorRuns + 1

InHandled(s, t, io) ==
    IF s.state_ = ESTABLISHED THEN OnlyLatched(s, t, "EOF")
    ELSE IF s.state_ = RECV_ADDR /\ io = "full"
    THEN t.state_ = ESTABLISHED /\ t.error_ = kSuccess /\ ~t.threw
    ELSE IF s.state_ = RECV_ADDR THEN OnlyLatched(s, t, "ShortRead")
    ELSE t.threw /\ t.state_ = s.state_ /\ t.error_ = kSuccess

OutHandled(s, t, io) ==
    IF s.state_ = SEND_ADDR /\ io = "full"
    THEN t.state_ = RECV_ADDR /\ t.error_ = kSuccess /\ ~t.threw
    ELSE IF s.state_ = SEND_ADDR THEN OnlyLatched(s, t, "ShortWrite")
    ELSE t.threw /\ t.state_ = s.state_ /\ t.error_ = kSuccess

C19_DispatchPriority ==
    \A c \in Conn :
        (Alive(conn[c]) /\ conn[c].registered # "none"
         /\ conn[c].error_ = kSuccess) =>
            \A events \in EventMasks, io \in {"full", "short"} :
                LET s == conn[c]
                    t == handleEventsFromLoop(s, events, io)
                IN  IF "ERR" \in events THEN OnlyLatched(s, t, "System")
                    ELSE IF "IN" \in events THEN InHandled(s, t, io)
                    ELSE IF "OUT" \in events THEN OutHandled(s, t, io)
                    ELSE IF "HUP" \in events THEN OnlyLatched(s, t, "EOF")
                    ELSE t = s

\* Dispatches have happened on both sides: A's socket reported an error
\* during the handshake, and B, established, saw the end of file.
C19_Witness ==
    /\ conn["A"].state_ = RECV_ADDR
    /\ conn["A"].error_ = "System"
    /\ conn["B"].state_ = ESTABLISHED
    /\ conn["B"].error_ = "EOF"

\* C20: ACK accounting.  In every step, the ACKs a connection posts are, in
\* order, one per read operation that consumed bytes in that step, each
\* carrying the number of bytes (more than zero) that operation consumed,
\* and numAcksInFlight_ grows by their number; a step that consumes nothing
\* posts no ACK.  After every step the values of all the ACKs the
\* connection has posted (those its peer has taken off its outbox and those
\* still on their way) add up to its inbox tail.
hadBytes(s, seq) ==
    IF s.readOperations_ # <<>> /\ Head(s.readOperations_).seq = seq
    THEN Len(Head(s.readOperations_).buf)
    ELSE 0

\* The bytes each read operation consumed in the step from s to t: the
\* operations completed in the step, then the front operation left.
consumedPerOperation(s, t) ==
    LET n == Len(t.readCalls) - Len(s.readCalls)
        done == [k \in 1..n |->
                    t.readCalls[Len(s.readCalls) + k].length
                    - hadBytes(s, t.readCalls[Len(s.readCalls) + k].seq)]
        front == IF t.readOperations_ # <<>>
                 THEN <<Len(Head(t.readOperations_).buf)
                        - hadBytes(s, Head(t.readOperations_).seq)>>
                 ELSE <<>>
    IN  SelectSeq(done \o front, LAMBDA x : x # 0)

ackValues(wrs) == [k \in 1..Len(wrs) |-> wrs[k].imm_data]

C20_AckAccounting ==
    [][\A c \in Conn :
          LET s == conn[c]
              t == conn'[c]
              old == Len(s.postedAcks)
              new == SubSeq(t.postedAcks, old + 1, Len(t.postedAcks))
          IN  /\ t.inboxTail =
                     conn'[Peer(c)].outboxTail + sumLengths(t.postedAcks)
              /\ IF Len(t.postedAcks) < old
                 THEN /\ t.postedAcks = Tail(s.postedAcks)
                      /\ t.inboxTail = s.inboxTail
                      /\ t.numAcksInFlight_ = s.numAcksInFlight_
                 ELSE /\ SubSeq(t.postedAcks, 1, old) = s.postedAcks
                      /\ ackValues(new) = consumedPerOperation(s, t)
                      /\ \A k \in 1..Len(new) :
                             /\ new[k].imm_data > 0
                             /\ new[k].wr_id = kAckRequestId
                      /\ sumLengths(new) = t.inboxTail - s.inboxTail
                      /\ t.numAcksInFlight_ - Len(new) + s.sentAcks - t.sentAcks
                             = s.numAcksInFlight_]_vars

\* B consumed bytes in several chunks: A has taken a first ACK off its
\* outbox and two more ACKs of B are on their way.
C20_Witness ==
    /\ conn["A"].outboxTail > 0
    /\ Len(conn["B"].postedAcks) = 2
    /\ conn["B"].inboxTail =
           conn["A"].outboxTail + sumLengths(conn["B"].postedAcks)
    /\ conn["B"].numAcksInFlight_ >= 2

\* C21: posting of RDMA writes.  In every step, the write operations that
\* produced bytes into the outbox each produced one chunk, and the RDMA
\* writes posted in the step are, in order, those of the chunks: one write
\* for a chunk that does not wrap the ring and two for one that does, with
\* immediate values that add up to the chunk, each aimed at the offset of
\* peerInboxHead_ as it was before that write advanced it by its length.
\* numWritesInFlight_ grows by the number of writes posted, and
\* peerInboxHead_ never decreases.

\* The write operations a step from s to t may have served: those queued in
\* s, then the one the step submitted, each with its length.
servedWrites(s, t) ==
    [k \in 1..Len(s.writeOperations_) |->
        [seq |-> s.writeOperations_[k].seq,
         size |-> Len(s.writeOperations_[k].data),
         written |-> s.writeOperations_[k].written]]
    \o (IF t.nextBufferBeingWritten_ > s.nextBufferBeingWritten_
        THEN <<[seq |-> s.nextBufferBeingWritten_,
                size |-> t.bytesSubmitted - s.bytesSubmitted,
                written |-> 0]>>
        ELSE <<>>)

\* What of operation op has been copied into the outbox in state t.
writtenIn(t, op) ==
    LET left == SelectSeq(t.writeOperations_, LAMBDA o : o.seq = op.seq)
    IN  IF left = <<>> THEN op.size ELSE Head(left).written

\* The chunks produced in the step, one per operation that produced bytes.
producedPerOperation(s, t) ==
    LET ops == servedWrites(s, t)
        all == [k \in 1..Len(ops) |-> writtenIn(t, ops[k]) - ops[k].written]
    IN  SelectSeq(all, LAMBDA x : x # 0)

\* The writes the chunks call for, the first chunk starting at ring counter
\* `from` of the outbox with the peer's inbox head at `peer`.
RECURSIVE writesOfChunks(_, _, _)
writesOfChunks(chunks, from, peer) ==
    IF chunks = <<>> THEN <<>>
    ELSE LET L == Head(chunks)
             first == Min(L, kBufferSize - Offset(from))
             spans == IF first = L THEN <<L>> ELSE <<first, L - first>>
             wrs == [k \in 1..Len(spans) |->
                        [wr_id |-> kWriteRequestId,
                         imm_data |-> spans[k],
                         remote_addr |->
                             Offset(peer + (IF k = 1 THEN 0 ELSE first))]]
         IN  wrs \o writesOfChunks(Tail(chunks), from + L, peer + L)

writeRequests(wrs) ==
    [k \in 1..Len(wrs) |-> [wr_id |-> wrs[k].wr_id,
                            imm_data |-> wrs[k].imm_data,
                            remote_addr |-> wrs[k].remote_addr]]

C21_WritePosting ==
    [][\A c \in Conn :
          LET s == conn[c]
              t == conn'[c]
              old == Len(s.postedWrites)
              new == SubSeq(t.postedWrites, old + 1, Len(t.postedWrites))
          IN  /\ t.peerInboxHead_ >= s.peerInboxHead_
              /\ IF Len(t.postedWrites) < old
                 THEN /\ t.postedWrites = Tail(s.postedWrites)
                      /\ t.peerInboxHead_ = s.peerInboxHead_
                      /\ t.outboxHead = s.outboxHead
                      /\ t.numWritesInFlight_ = s.numWritesInFlight_
                 ELSE /\ SubSeq(t.postedWrites, 1, old) = s.postedWrites
                      /\ writeRequests(new) =
                             writesOfChunks(producedPerOperation(s, t),
                                            s.outboxHead, s.peerInboxHead_)
                      /\ \A k \in 1..Len(new) :
                             new[k].length = new[k].imm_data
                      /\ sumLengths(new) = t.outboxHead - s.outboxHead
                      /\ t.peerInboxHead_ = s.peerInboxHead_ + sumLengths(new)
                      /\ t.numWritesInFlight_ - Len(new)
                             + s.sentWrites - t.sentWrites
                             = s.numWritesInFlight_]_vars

\* A chunk of two bytes produced at the last slot of the ring was posted as
\* two writes, the first to the peer's last slot and the second to its
\* first.
C21_Witness ==
    LET w == conn["A"].postedWrites
    IN  /\ Len(w) = 2
        /\ w[1].remote_addr = kBufferSize - 1 /\ w[1].imm_data = 1
        /\ w[2].remote_addr = 0 /\ w[2].imm_data = 1
        /\ conn["A"].peerInboxHead_ = kBufferSize + 1
        /\ conn["A"].numWritesInFlight_ >= 2
        /\ Len(conn["A"].writeCalls) = 2

\* C22: only an ACK moves the outbox tail.  A step changes the outbox tail
\* of a connection only if it delivers the oldest ACK posted by the peer,
\* and then the tail grows by the ACK's value and numBytesInFlight_ shrinks
\* by the same.  Processing the write queue leaves the tail where it is
\* (its peek of the outbox is cancelled), and the dispatch of a write's
\* completion changes neither the tail nor numBytesInFlight_.
C22_OnlyAckMovesOutboxTail ==
    [][\A c \in Conn :
          LET s == conn[c]
              t == conn'[c]
              acks == conn[Peer(c)].postedAcks
          IN  /\ t.outboxTail # s.outboxTail =>
                    /\ RemoteConsumedData(Peer(c))
                    /\ t.outboxTail = s.outboxTail + Head(acks).imm_data
                    /\ t.numBytesInFlight_ + Head(acks).imm_data
                           = s.numBytesInFlight_ + (t.outboxHead - s.outboxHead)
              /\ processWriteOperationsFromLoop(s).outboxTail = s.outboxTail
              /\ (WriteCompleted(c) \/ WriteFailed(c)) =>
                    /\ t.outboxTail = s.outboxTail
                    /\ t.numBytesInFlight_ = s.numBytesInFlight_
                    /\ t.outboxHead = s.outboxHead]_vars

\* A's tail has moved with B's ACK while the completion of A's write was
\* still due, and the completion has then been dispatched.
C22_Witness ==
    /\ conn["A"].outboxTail > 0
    /\ conn["A"].outboxTail = conn["A"].outboxHead
    /\ conn["A"].error_ = kSuccess
    /\ conn["A"].numWritesInFlight_ = 0
    /\ conn["A"].numBytesInFlight_ = 0
    /\ conn["B"].sentAcks = 0

\* C23 as stated: in the teardown of the first error, tryCleanup is called
\* only after the socket was unregistered and closed.
C23_Original ==
    \A c \in Conn :
        \A i, j \in 1..Len(conn[c].teardown) :
            (conn[c].teardown[i] = "tryCleanup"
             /\ conn[c].teardown[j] = "socket") => j < i

\* C23, amended: the teardown of the first error runs in the order (1) the
\* queued callbacks are called with the error and the queues cleared, (2)
\* the queue pair is moved to ERROR, (3) tryCleanup is called, (4) the
\* socket, if open, is unregistered and closed: the steps taken are a prefix
\* of this order, and all of it unless the process ended in step (2).  The
\* teardown runs once; cleanup_ itself, which tryCleanup defers, runs only
\* after the socket was closed.
TeardownOrder == <<"callbacks", "qpError", "tryCleanup", "socket">>

C23_TeardownOrder ==
    \A c \in Conn :
        LET s == conn[c]
        IN  /\ IsPrefix(s.teardown, TeardownOrder)
            /\ s.error_ = kSuccess => s.teardown = <<>>
            /\ s.error_ # kSuccess =>
                   /\ s.handleErrorRuns = 1
                   /\ Len(s.teardown) >= 2
                   /\ s.readOperations_ = <<>> /\ s.writeOperations_ = <<>>
            /\ (s.error_ # kSuccess /\ ~s.crashed) =>
                   /\ Len(s.teardown) >= 3
                   /\ ~s.socket_
                   /\ s.registered = "none"
                   /\ s.socketClosed <=> Len(s.teardown) = 4
            /\ s.cleanupRuns > 0 => ~s.socket_ /\ Len(s.teardown) >= 3

\* A failed with a write queued: its callback was called with the error,
\* the queue pair went to ERROR, tryCleanup deferred cleanup_, and then the
\* socket was closed.
C23_Witness ==
    /\ conn["A"].teardown = TeardownOrder
    /\ Len(conn["A"].writeCalls) = 1
    /\ conn["A"].writeCalls[1].queued
    /\ conn["A"].writeCalls[1].error = conn["A"].error_
    /\ conn["A"].qp_ = "ERROR"
    /\ conn["A"].deferredCleanups = 1
    /\ conn["A"].socketClosed

\* C24: the outbox holds no byte that was produced and not posted.  After
\* every loop task, on a connection without an error, numBytesInFlight_ is
\* the occupancy of the outbox and peerInboxHead_ is the outbox head, the
\* number of bytes ever produced; the bytes of the RDMA writes posted so
\* far add up to the same.
C24_AllProducedIsPosted ==
    \A c \in Conn :
        LET s == conn[c]
        IN  s.error_ = kSuccess =>
               /\ s.numBytesInFlight_ = s.outboxHead - s.outboxTail
               /\ s.peerInboxHead_ = s.outboxHead
               /\ s.outboxHead =
                      conn[Peer(c)].inboxHead + sumLengths(s.postedWrites)

\* A has produced more than the ring holds: ACKs freed room, a wrapped chunk
\* was posted as two writes, the outbox is full again and a write waits.
C24_Witness ==
    /\ conn["A"].error_ = kSuccess
    /\ conn["A"].outboxHead > kBufferSize
    /\ conn["A"].outboxTail > 0
    /\ conn["A"].numBytesInFlight_ = kBufferSize
    /\ conn["A"].peerInboxHead_ = conn["A"].outboxHead
    /\ Len(conn["A"].postedWrites) = 2
    /\ conn["A"].writeOperations_ # <<>>

\* C25: no posted RDMA write crosses the end of the peer's inbox.  Every
\* posted write has at least one byte, starts inside the peer's inbox and
\* ends at most at its end, and is written to the ring offset it is read
\* from: the span of the outbox and its place in the peer's inbox start at
\* the same offset.
C25_NoWriteCrossesInboxEnd ==
    \A c \in Conn :
        \A i \in 1..Len(conn[c].postedWrites) :
            LET wr == conn[c].postedWrites[i]
            IN  /\ wr.length > 0
                /\ wr.remote_addr \in 0..(kBufferSize - 1)
                /\ wr.remote_addr + wr.length <= kBufferSize
                /\ wr.addr = wr.remote_addr
                /\ wr.imm_data = wr.length

\* After the ring was gone through twice, a posted write ends exactly at the
\* end of the peer's inbox without starting at its beginning.
C25_Witness ==
    /\ conn["A"].peerInboxHead_ >= 2 * kBufferSize
    /\ \E i \in 1..Len(conn["A"].postedWrites) :
           LET wr == conn["A"].postedWrites[i]
           IN  wr.remote_addr > 0 /\ wr.remote_addr + wr.length = kBufferSize

\* C26: cleanup_ is deferred and run at most once per connection.  Whatever
\* the errors, close calls and completions and their order, the cleanup_
\* tasks deferred so far, run or not, are at most one, and the queue pair
\* and the buffers are in the released state only after that one run.
C26_CleanupAtMostOnce ==
    \A c \in Conn :
        LET s == conn[c]
        IN  /\ s.deferredCleanups + s.cleanupRuns <= 1
            /\ s.deferredCleanups >= 0
            /\ Len(s.cleanupCounters) = s.cleanupRuns
            /\ s.deferredCleanups + s.cleanupRuns = 1 =>
                   /\ s.error_ # kSuccess
                   /\ s.numWritesInFlight_ = 0 /\ s.numAcksInFlight_ = 0
            /\ s.qp_ = "released" <=> (s.cleanupRuns = 1 /\ ~s.nullQpUse)
            /\ s.buffers = "released" <=> s.qp_ = "released"

\* A was closed twice after a failed completion had latched IbvError with
\* its write in flight; cleanup_ has run, once.
C26_Witness ==
    /\ conn["A"].closeCalls = 2
    /\ conn["A"].error_ = "Ibv"
    /\ conn["A"].bytesSubmitted > 0
    /\ conn["A"].cleanupRuns = 1
    /\ conn["A"].deferredCleanups = 0
    /\ conn["A"].qp_ = "released"
    /\ conn["B"].cleanupRuns = 1

\* C27: the teardown touches only a queue pair that exists.  handleError
\* moves the queue pair to ERROR, and cleanup_ unregisters and releases it,
\* only on a connection whose initFromLoop created it: the queue pair is
\* never used while null, and a connection still INITIALIZING, whose
\* initFromLoop failed, has no cleanup_ deferred or run.
C27_TeardownHasQueuePair ==
    \A c \in Conn :
        LET s == conn[c]
        IN  /\ ~s.nullQpUse
            /\ s.qp_ = "null" => s.deferredCleanups = 0 /\ s.cleanupRuns = 0

\* C28: a connection with an error posts nothing.  In every step that ends
\* with an error latched on a connection (the step that latches it
\* included), no RDMA write and no ACK is posted for it: the work requests
\* waiting for transmission only leave the reactor's queues, the two
\* in-flight counters do not grow, and the rings are not touched by read or
\* write processing, whether the step is a submission, a delivery from the
\* peer or a completion.
C28_NoPostAfterError ==
    [][\A c \in Conn :
          LET s == conn[c]
              t == conn'[c]
          IN  t.error_ # kSuccess =>
                 /\ t.numWritesInFlight_ <= s.numWritesInFlight_
                 /\ t.numAcksInFlight_ <= s.numAcksInFlight_
                 /\ Len(t.postedWrites) <= Len(s.postedWrites)
                 /\ Len(t.postedAcks) <= Len(s.postedAcks)
                 /\ Len(t.postedWrites) + t.sentWrites
                        <= Len(s.postedWrites) + s.sentWrites
                 /\ Len(t.postedAcks) + t.sentAcks
                        <= Len(s.postedAcks) + s.sentAcks
                 /\ t.peerInboxHead_ = s.peerInboxHead_
                 /\ t.outboxHead = s.outboxHead
                 /\ t.inboxTail = s.inboxTail
                 /\ t.numWritesInFlight_ >= 0 /\ t.numAcksInFlight_ >= 0]_vars

\* B's queued read was failed by an error while the inbox was empty; A's
\* bytes were delivered to B's inbox afterwards and B posted no ACK.
C28_Witness ==
    /\ conn["B"].error_ # kSuccess
    /\ Len(conn["B"].readCalls) = 1
    /\ conn["B"].readCalls[1].queued
    /\ conn["B"].readCalls[1].error # kSuccess
    /\ conn["B"].inboxHead > 0
    /\ conn["B"].inboxTail = 0
    /\ conn["B"].numAcksInFlight_ = 0
    /\ conn["B"].postedAcks = <<>>

====
